---- MODULE Spec2Model ----
(***************************************************************************)
(* floppa-api: the gin HTTP server of backend/main.go.                     *)
(*                                                                         *)
(* GET /macka fetches one random record of collection "macky" from the     *)
(* PocketBase record store, downloads its image file, launches a detached  *)
(* goroutine that PATCHes the record's view count and writes the image to  *)
(* the client.  GET /macka/count reads the collection's item count.        *)
(* GET /floppapi serves a random image file of the local ./floppa          *)
(* directory.                                                              *)
(*                                                                         *)
(* The record store is the environment: it answers every outbound request  *)
(* with a transport error or an HTTP response, and holds the view counts.  *)
(* Every handler is cut at its blocking network calls, which are the only  *)
(* places where requests interleave on shared state (the store).           *)
(***************************************************************************)
EXTENDS Integers, Sequences, FiniteSets

\* ------------------------------------------------------------------ bounds
\* Requests in flight at once (a slot is taken by the next request once its
\* handler and its goroutine are both finished).
MaxConc == 2
\* GET /macka and GET /macka/count requests that arrive in one behaviour.
MaxArrivals == 3
\* Requests that arrive in a behaviour of LiveSpec.
LiveArrivals == 2
\* Entries of the ./floppa directory.
MaxFiles == 2

Slots == 1..MaxConc

\* ------------------------------------------------------- program constants
StatusOK == 200
StatusInternalServerError == 500
PocketBaseURL == "pb"
Collection == "macky"
floppaDir == <<".", "/", "f", "l", "o", "p", "p", "a">>

\* ------------------------------------------------- the remote record store
\* Records of the collection: r0 has an empty image field.
RecIds == {"r0", "r1", "r2"}
ImageOf(id) == IF id = "r0" THEN "" ELSE IF id = "r1" THEN "cat.jpg" ELSE "dog.jpg"
InitViews == [id \in RecIds |-> IF id = "r1" THEN 3 ELSE 0]
FileBytes(id) == <<id>>
\* Status and body text of the store's error responses.
ErrStatuses == {404}
ErrBody == <<"not found">>

VARIABLES views, arrivals, served,
          hpc, route, cat, imageData, resp, gpc, gargs, logged,
          sent, fetchResp, dlResp, patchResp,
          dir, imageFiles, picked

mackaVars == <<views, arrivals, served, hpc, route, cat, imageData, resp, gpc,
               gargs, logged, sent, fetchResp, dlResp, patchResp>>
pickerVars == <<dir, imageFiles, picked>>
vars == <<mackaVars, pickerVars>>


\* ------------------------------------------------------------ values
\* fmt.Errorf / fmt.Sprintf: the format and its arguments.
Errorf(format, args) == [format |-> format, args |-> args]
Sprintf(format, args) == [format |-> format, args |-> args]

NoErr == [format |-> "", args |-> <<>>]
NoResp == [kind |-> "none"]
NoCat == [ID |-> "", Image |-> "", Views |-> 0]
NoBytes == <<>>
NoCacheHeaders == {<<"Cache-Control", "no-cache, no-store, must-revalidate">>,
                   <<"Pragma", "no-cache">>, <<"Expires", "0">>}

\* ----------------------------------------------- what the store can answer
\* A transport failure: client.Do returns an error.  For a PATCH the store may
\* have applied the request before the failure (a timeout on the way back).
NetErrs(canApply) ==
    {[kind |-> "neterr", applied |-> a] : a \in (IF canApply THEN BOOLEAN ELSE {FALSE})}

\* A body is a record: bytes that are no JSON, or a parsed JSON document.
Bytes(data) == [json |-> FALSE, bytes |-> data]
Json(doc) == [json |-> TRUE, doc |-> doc]
Garbage == Bytes(<<"<html>">>)

\* An HTTP response: status, body, and how much of the body the connection
\* delivers (got < Len(body) is a read that breaks part-way, readErr).
HTTPResponses(status, data) ==
    {[kind |-> "http", status |-> status, body |-> Bytes(data), got |-> n,
      readErr |-> (n < Len(data))] : n \in 0..Len(data)}

ErrResponses == UNION {HTTPResponses(s, ErrBody) : s \in ErrStatuses}

\* The record as the store serves it.
RecordDoc(id) == [id |-> id, image |-> ImageOf(id), views |-> views[id]]

\* GET {base}/api/collections/{c}/records?perPage=1&sort=@random
FetchAnswers ==
    NetErrs(FALSE) \cup ErrResponses
    \cup {[kind |-> "http", status |-> StatusOK, body |-> b, got |-> 1, readErr |-> FALSE] :
            b \in {Garbage, Json([items |-> <<>>])}
                  \cup {Json([items |-> <<RecordDoc(id)>>]) : id \in RecIds}}

\* GET {base}/api/files/{c}/{id}/{filename}
DownloadAnswers(id) ==
    NetErrs(FALSE) \cup ErrResponses \cup HTTPResponses(StatusOK, FileBytes(id))

\* GET {base}/api/collections/{c}/records?perPage=1
CountAnswers ==
    NetErrs(FALSE) \cup ErrResponses
    \cup {[kind |-> "http", status |-> StatusOK, body |-> b, got |-> 1, readErr |-> FALSE] :
            b \in {Garbage, Json([totalItems |-> Cardinality(RecIds), items |-> <<>>])}}

\* PATCH {base}/api/collections/{c}/records/{id}
PatchAnswers ==
    NetErrs(TRUE) \cup ErrResponses
    \cup {[kind |-> "http", status |-> StatusOK, body |-> Garbage, got |-> 1, readErr |-> FALSE]}

\* ---------------------------------------------------------- library calls
\* io.ReadAll: the bytes read, and whether the read failed.
ReadAll(r) == [data |-> SubSeq(r.body.bytes, 1, r.got), err |-> r.readErr]

\* json.Decoder.Decode into RandomCatsResponse: absent fields stay zero.
DecodeCat(doc) ==
    [ID    |-> IF "id" \in DOMAIN doc THEN doc.id ELSE "",
     Image |-> IF "image" \in DOMAIN doc THEN doc.image ELSE "",
     Views |-> IF "views" \in DOMAIN doc THEN doc.views ELSE 0]

DecodeRandomCats(body) ==
    IF ~body.json THEN [err |-> TRUE, Items |-> <<>>]
    ELSE [err |-> FALSE,
          Items |-> IF "items" \in DOMAIN body.doc
                    THEN [i \in DOMAIN body.doc.items |-> DecodeCat(body.doc.items[i])]
                    ELSE <<>>]

\* json.Decoder.Decode into CollectionStats.
DecodeStats(body) ==
    IF ~body.json THEN [err |-> TRUE, TotalItems |-> 0]
    ELSE [err |-> FALSE,
          TotalItems |-> IF "totalItems" \in DOMAIN body.doc THEN body.doc.totalItems ELSE 0]


\* ------------------------------------------------------- outbound requests
Request(method, url, body) == [method |-> method, url |-> url, body |-> body]
NoBody == Bytes(<<>>)

FetchRequest(pocketBaseURL, collectionName) ==
    Request("GET", Sprintf("%s/api/collections/%s/records?perPage=1&sort=@random",
                           <<pocketBaseURL, collectionName>>), NoBody)

FileRequest(pocketBaseURL, collectionName, c) ==
    Request("GET", Sprintf("%s/api/files/%s/%s/%s",
                           <<pocketBaseURL, collectionName, c.ID, c.Image>>), NoBody)

CountRequest(pocketBaseURL, collectionName) ==
    Request("GET", Sprintf("%s/api/collections/%s/records?perPage=1",
                           <<pocketBaseURL, collectionName>>), NoBody)

\* Mutants of ViewsPayload: an increment of two, and a decrement.
ViewsPayloadTwo(v) == Json([views |-> v + 2])
ViewsPayloadDown(v) == Json([views |-> v - 1])

\* updateRecordViews, its payload and its request.
ViewsPayload(v) == Json([views |-> v + 1])

\* Mutant of PatchRequest: the collection name and the record id swapped.
PatchRequestSwapped(pocketBaseURL, collectionName, recordID, v) ==
    Request("PATCH", Sprintf("%s/api/collections/%s/records/%s",
                             <<pocketBaseURL, recordID, collectionName>>), ViewsPayload(v))

PatchRequest(pocketBaseURL, collectionName, recordID, v) ==
    Request("PATCH", Sprintf("%s/api/collections/%s/records/%s",
                             <<pocketBaseURL, collectionName, recordID>>), ViewsPayload(v))

\* ------------------------------------------- getRandomImageFromCollection
\* Mutant of FetchRandomRecord: the image-field check left out.
FetchRandomRecordAnyImage(ans) ==
    IF ans.kind = "neterr"
    THEN [err |-> Errorf("failed to fetch random record: %w", <<"transport">>), cat |-> NoCat]
    ELSE IF ans.status # StatusOK
    THEN [err |-> Errorf("API error %d: %s", <<ans.status, ReadAll(ans).data>>), cat |-> NoCat]
    ELSE LET randomResp == DecodeRandomCats(ans.body) IN
         IF randomResp.err
         THEN [err |-> Errorf("failed to decode response: %w", <<"json">>), cat |-> NoCat]
         ELSE IF Len(randomResp.Items) = 0
         THEN [err |-> Errorf("no cat records found in collection", <<>>), cat |-> NoCat]
         ELSE [err |-> NoErr, cat |-> randomResp.Items[1]]

\* Its first half: the random-record response, up to the image-field check.
FetchRandomRecord(ans) ==
    IF ans.kind = "neterr"
    THEN [err |-> Errorf("failed to fetch random record: %w", <<"transport">>), cat |-> NoCat]
    ELSE IF ans.status # StatusOK
    THEN [err |-> Errorf("API error %d: %s", <<ans.status, ReadAll(ans).data>>), cat |-> NoCat]
    ELSE LET randomResp == DecodeRandomCats(ans.body) IN
         IF randomResp.err
         THEN [err |-> Errorf("failed to decode response: %w", <<"json">>), cat |-> NoCat]
         ELSE IF Len(randomResp.Items) = 0
         THEN [err |-> Errorf("no cat records found in collection", <<>>), cat |-> NoCat]
         ELSE IF randomResp.Items[1].Image = ""
         THEN [err |-> Errorf("record has no image field", <<>>), cat |-> NoCat]
         ELSE [err |-> NoErr, cat |-> randomResp.Items[1]]

\* Mutant of DownloadImage: the error of io.ReadAll dropped.
DownloadImageUnchecked(ans) ==
    IF ans.kind = "neterr"
    THEN [err |-> Errorf("failed to download image: %w", <<"transport">>), imageData |-> NoBytes]
    ELSE IF ans.status # StatusOK
    THEN [err |-> Errorf("image download error %d: %s", <<ans.status, ReadAll(ans).data>>),
          imageData |-> NoBytes]
    ELSE [err |-> NoErr, imageData |-> ReadAll(ans).data]

\* Its second half: the file response.
DownloadImage(ans) ==
    IF ans.kind = "neterr"
    THEN [err |-> Errorf("failed to download image: %w", <<"transport">>), imageData |-> NoBytes]
    ELSE IF ans.status # StatusOK
    THEN [err |-> Errorf("image download error %d: %s", <<ans.status, ReadAll(ans).data>>),
          imageData |-> NoBytes]
    ELSE IF ReadAll(ans).err
    THEN [err |-> Errorf("failed to read image data: %w", <<"read">>), imageData |-> NoBytes]
    ELSE [err |-> NoErr, imageData |-> ReadAll(ans).data]

\* getCollectionCount on the store's answer.
getCollectionCount(ans) ==
    IF ans.kind = "neterr"
    THEN [err |-> Errorf("request failed: %w", <<"transport">>), count |-> 0]
    ELSE IF ans.status # StatusOK
    THEN [err |-> Errorf("API error %d: %s", <<ans.status, ReadAll(ans).data>>), count |-> 0]
    ELSE LET stats == DecodeStats(ans.body) IN
         IF stats.err
         THEN [err |-> Errorf("failed to decode response: %w", <<"json">>), count |-> 0]
         ELSE [err |-> NoErr, count |-> stats.TotalItems]

\* Mutant of updateRecordViews: the status check left out.
updateRecordViewsAnyStatus(ans) ==
    IF ans.kind = "neterr"
    THEN Errorf("request failed: %w", <<"transport">>)
    ELSE NoErr

\* updateRecordViews on the store's answer.
updateRecordViews(ans) ==
    IF ans.kind = "neterr"
    THEN Errorf("request failed: %w", <<"transport">>)
    ELSE IF ans.status # StatusOK
    THEN Errorf("API error %d: %s", <<ans.status, ReadAll(ans).data>>)
    ELSE NoErr

\* ------------------------------------------------------------- responses
\* c.JSON(http.StatusInternalServerError, gin.H{"error": err.Error()})
ErrorResponse(err) ==
    [kind |-> "sent", status |-> StatusInternalServerError, ctype |-> "application/json",
     headers |-> {}, body |-> Json([error |-> err])]

\* c.Header x3; c.Data(http.StatusOK, "image/jpeg", imageData)
ImageResponse(data) ==
    [kind |-> "sent", status |-> StatusOK, ctype |-> "image/jpeg",
     headers |-> NoCacheHeaders, body |-> Bytes(data)]

\* c.JSON(http.StatusOK, gin.H{"count": count})
CountResponse(count) ==
    [kind |-> "sent", status |-> StatusOK, ctype |-> "application/json",
     headers |-> {}, body |-> Json([count |-> count])]


\* ------------------------------------------------------ the local picker
\* File names are sequences of characters.  Candidates lists them in the byte
\* order os.ReadDir returns; a directory is a set of indices into it.
Candidates ==
    << [name |-> <<".", "g", "i", "f">>, isDir |-> FALSE],
       [name |-> <<"a", ".", "J", "P", "G">>, isDir |-> FALSE],
       [name |-> <<"a", ".", "p", "n", "g">>, isDir |-> FALSE],
       [name |-> <<"b", ".", "t", "x", "t">>, isDir |-> FALSE],
       [name |-> <<"c", ".", "j", "p", "g">>, isDir |-> FALSE],
       [name |-> <<"d", ".", "j", "p", "g", ".", "b", "m", "p">>, isDir |-> FALSE],
       [name |-> <<"e", ".", "j", "p", "e", "g">>, isDir |-> FALSE],
       [name |-> <<"f", ".", "j", "p", "g", ".", "t", "x", "t">>, isDir |-> FALSE],
       [name |-> <<"g", ".", "w", "e", "b", "p">>, isDir |-> FALSE],
       [name |-> <<"h", "j", "p", "g">>, isDir |-> FALSE],
       [name |-> <<"i", ".", "j", "p", "g", "x">>, isDir |-> FALSE],
       [name |-> <<"s", "u", "b", ".", "p", "n", "g">>, isDir |-> TRUE] >>

Dirs == {d \in SUBSET (DOMAIN Candidates) : Cardinality(d) <= MaxFiles}
ExampleDir == {3, 4, 5}

\* os.ReadDir: the entries, sorted by file name.
RECURSIVE Ascending(_)
Ascending(d) ==
    IF d = {} THEN <<>>
    ELSE LET m == CHOOSE x \in d : \A y \in d : x <= y
         IN <<Candidates[m]>> \o Ascending(d \ {m})

ReadDir(d) == Ascending(d)

\* filepath.Ext: the suffix from the last dot of the last path element.
RECURSIVE ExtFrom(_, _)
ExtFrom(path, i) ==
    IF i < 1 \/ path[i] = "/" THEN <<>>
    ELSE IF path[i] = "." THEN SubSeq(path, i, Len(path))
    ELSE ExtFrom(path, i - 1)

\* Mutant of Ext: the suffix from the first dot.
RECURSIVE ExtFromFirst(_, _)
ExtFromFirst(path, i) ==
    IF i > Len(path) THEN <<>>
    ELSE IF path[i] = "." THEN SubSeq(path, i, Len(path))
    ELSE ExtFromFirst(path, i + 1)

ExtFirstDot(path) == ExtFromFirst(path, 1)

Ext(path) == ExtFrom(path, Len(path))

isImageFile(filename) ==
    Ext(filename) \in { <<".", "j", "p", "g">>, <<".", "j", "p", "e", "g">>,
                        <<".", "p", "n", "g">>, <<".", "g", "i", "f">>,
                        <<".", "b", "m", "p">>, <<".", "w", "e", "b", "p">> }

\* filepath.Join of a directory and an entry name (neither "." nor ".."):
\* the two joined by a separator and cleaned, which drops a leading "./".
Join(d, name) ==
    LET joined == d \o <<"/">> \o name
    IN IF Len(joined) >= 2 /\ joined[1] = "." /\ joined[2] = "/"
       THEN SubSeq(joined, 3, Len(joined)) ELSE joined

\* The loop of getRandomImage over the first n entries.
RECURSIVE Filter(_, _)
Filter(files, n) ==
    IF n = 0 THEN <<>>
    ELSE IF ~files[n].isDir /\ isImageFile(files[n].name)
         THEN Append(Filter(files, n - 1), files[n].name)
         ELSE Filter(files, n - 1)

NoPick == [kind |-> "none"]

\* GET /floppapi: getRandomImage, then c.File or the JSON error.
Floppapi ==
    /\ \E readFails \in BOOLEAN :
         IF readFails
         THEN /\ imageFiles' = <<>>
              /\ picked' = [kind |-> "done", status |-> StatusInternalServerError,
                            err |-> Errorf("failed to read floppa directory: %v", <<"readdir">>),
                            path |-> <<>>]
         ELSE LET files == Filter(ReadDir(dir), Len(ReadDir(dir))) IN
              /\ imageFiles' = files
              /\ IF Len(files) = 0
                 THEN picked' = [kind |-> "done", status |-> StatusInternalServerError,
                                 err |-> Errorf("no image files found in floppa directory", <<>>),
                                 path |-> <<>>]
                 ELSE \E randomIndex \in 0..(Len(files) - 1) :
                        picked' = [kind |-> "done", status |-> StatusOK, err |-> NoErr,
                                   path |-> Join(floppaDir, files[randomIndex + 1])]
    /\ UNCHANGED <<dir, mackaVars>>


\* ------------------------------------------------------------ the server
NoArgs == [recordID |-> "", currentViews |-> 0]

MackaInit ==
    /\ views = InitViews
    /\ arrivals = 0
    /\ served = [id \in RecIds |-> 0]
    /\ hpc = [r \in Slots |-> "idle"]
    /\ route = [r \in Slots |-> "none"]
    /\ cat = [r \in Slots |-> NoCat]
    /\ imageData = [r \in Slots |-> NoBytes]
    /\ resp = [r \in Slots |-> NoResp]
    /\ gpc = [r \in Slots |-> "none"]
    /\ gargs = [r \in Slots |-> NoArgs]
    /\ logged = [r \in Slots |-> NoErr]
    /\ sent = [r \in Slots |-> <<>>]
    /\ fetchResp = [r \in Slots |-> NoResp]
    /\ dlResp = [r \in Slots |-> NoResp]
    /\ patchResp = [r \in Slots |-> NoResp]

PickerIdle ==
    /\ imageFiles = <<>>
    /\ picked = NoPick

Init == MackaInit /\ dir = ExampleDir /\ PickerIdle

\* A slot is free once its handler has returned and its goroutine, if one was
\* launched, has ended; the next request takes the lowest free slot.
Free(r) == hpc[r] \in {"idle", "done"} /\ gpc[r] \in {"none", "done"}
NextSlot(r) == Free(r) /\ \A q \in Slots : Free(q) => r <= q

\* What an arriving request finds in its slot.
Arrive(r, path) ==
    /\ arrivals < MaxArrivals
    /\ NextSlot(r)
    /\ arrivals' = arrivals + 1
    /\ route' = [route EXCEPT ![r] = path]
    /\ gpc' = [gpc EXCEPT ![r] = "none"]
    /\ gargs' = [gargs EXCEPT ![r] = NoArgs]
    /\ logged' = [logged EXCEPT ![r] = NoErr]
    /\ dlResp' = [dlResp EXCEPT ![r] = NoResp]
    /\ patchResp' = [patchResp EXCEPT ![r] = NoResp]
    /\ imageData' = [imageData EXCEPT ![r] = NoBytes]

\* GET /macka, to the answer of the random-record request: the handler fails
\* with a 500, or goes on to the file request.
Macka(r) ==
    /\ Arrive(r, "/macka")
    /\ \E ans \in FetchAnswers :
         LET res == FetchRandomRecord(ans) IN
         /\ sent' = [sent EXCEPT ![r] = <<FetchRequest(PocketBaseURL, Collection)>>]
         /\ fetchResp' = [fetchResp EXCEPT ![r] = ans]
         /\ cat' = [cat EXCEPT ![r] = res.cat]
         /\ IF res.err # NoErr
            THEN /\ resp' = [resp EXCEPT ![r] = ErrorResponse(res.err)]
                 /\ hpc' = [hpc EXCEPT ![r] = "done"]
            ELSE /\ resp' = [resp EXCEPT ![r] = NoResp]
                 /\ hpc' = [hpc EXCEPT ![r] = "download"]
    /\ UNCHANGED <<views, served, pickerVars>>

\* Mutant of Launch: the count incremented before it is handed over.
LaunchIncremented(c) == [recordID |-> c.ID, currentViews |-> c.Views + 1]

\* The go statement of the handler: the goroutine gets cat.ID and cat.Views.
Launch(c) == [recordID |-> c.ID, currentViews |-> c.Views]

\* Mutant of MackaDownload: the go statement ahead of the error check.
MackaDownloadLaunchFirst(r) ==
    /\ hpc[r] = "download"
    /\ \E ans \in DownloadAnswers(cat[r].ID) :
         LET res == DownloadImage(ans) IN
         /\ sent' = [sent EXCEPT ![r] = Append(@, FileRequest(PocketBaseURL, Collection, cat[r]))]
         /\ dlResp' = [dlResp EXCEPT ![r] = ans]
         /\ imageData' = [imageData EXCEPT ![r] = res.imageData]
         /\ gpc' = [gpc EXCEPT ![r] = "ready"]
         /\ gargs' = [gargs EXCEPT ![r] = Launch(cat[r])]
         /\ IF res.err # NoErr
            THEN /\ resp' = [resp EXCEPT ![r] = ErrorResponse(res.err)]
                 /\ hpc' = [hpc EXCEPT ![r] = "done"]
                 /\ UNCHANGED served
            ELSE /\ served' = [served EXCEPT ![cat[r].ID] = @ + 1]
                 /\ hpc' = [hpc EXCEPT ![r] = "respond"]
                 /\ UNCHANGED resp
    /\ UNCHANGED <<views, arrivals, route, cat, logged, fetchResp, patchResp, pickerVars>>

\* GET /macka, from the file request to the go statement: the handler fails
\* with a 500, or has the image and launches the view-count update.
MackaDownload(r) ==
    /\ hpc[r] = "download"
    /\ \E ans \in DownloadAnswers(cat[r].ID) :
         LET res == DownloadImage(ans) IN
         /\ sent' = [sent EXCEPT ![r] = Append(@, FileRequest(PocketBaseURL, Collection, cat[r]))]
         /\ dlResp' = [dlResp EXCEPT ![r] = ans]
         /\ imageData' = [imageData EXCEPT ![r] = res.imageData]
         /\ IF res.err # NoErr
            THEN /\ resp' = [resp EXCEPT ![r] = ErrorResponse(res.err)]
                 /\ hpc' = [hpc EXCEPT ![r] = "done"]
                 /\ UNCHANGED <<gpc, gargs, served>>
            ELSE /\ gpc' = [gpc EXCEPT ![r] = "ready"]
                 /\ gargs' = [gargs EXCEPT ![r] = Launch(cat[r])]
                 /\ served' = [served EXCEPT ![cat[r].ID] = @ + 1]
                 /\ hpc' = [hpc EXCEPT ![r] = "respond"]
                 /\ UNCHANGED resp
    /\ UNCHANGED <<views, arrivals, route, cat, logged, fetchResp, patchResp, pickerVars>>

\* Mutant of MackaRespond: the response held back until the update has ended.
MackaRespondAwaits(r) ==
    /\ hpc[r] = "respond"
    /\ gpc[r] = "done"
    /\ resp' = [resp EXCEPT ![r] = ImageResponse(imageData[r])]
    /\ hpc' = [hpc EXCEPT ![r] = "done"]
    /\ UNCHANGED <<views, arrivals, served, route, cat, imageData, gpc, gargs, logged,
                   sent, fetchResp, dlResp, patchResp, pickerVars>>

\* GET /macka, the cache headers and c.Data.
MackaRespond(r) ==
    /\ hpc[r] = "respond"
    /\ resp' = [resp EXCEPT ![r] = ImageResponse(imageData[r])]
    /\ hpc' = [hpc EXCEPT ![r] = "done"]
    /\ UNCHANGED <<views, arrivals, served, route, cat, imageData, gpc, gargs, logged,
                   sent, fetchResp, dlResp, patchResp, pickerVars>>

\* The store applies a PATCH it answers with 200, and may have applied one
\* whose answer is lost.
Applied(ans) ==
    \/ ans.kind = "http" /\ ans.status = StatusOK
    \/ ans.kind = "neterr" /\ ans.applied

\* The detached goroutine: updateRecordViews and the log line on failure.
UpdateViews(r) ==
    /\ gpc[r] = "ready"
    /\ \E ans \in PatchAnswers :
         LET req == PatchRequest(PocketBaseURL, Collection, gargs[r].recordID,
                                 gargs[r].currentViews)
             id == req.url.args[3]
         IN
         /\ sent' = [sent EXCEPT ![r] = Append(@, req)]
         /\ patchResp' = [patchResp EXCEPT ![r] = ans]
         /\ logged' = [logged EXCEPT ![r] = updateRecordViews(ans)]
         /\ views' = IF Applied(ans) /\ id \in RecIds
                     THEN [views EXCEPT ![id] = req.body.doc.views]
                     ELSE views
    /\ gpc' = [gpc EXCEPT ![r] = "done"]
    /\ UNCHANGED <<arrivals, served, hpc, route, cat, imageData, resp, gargs,
                   fetchResp, dlResp, pickerVars>>

\* GET /macka/count.
MackaCount(r) ==
    /\ Arrive(r, "/macka/count")
    /\ \E ans \in CountAnswers :
         LET res == getCollectionCount(ans) IN
         /\ sent' = [sent EXCEPT ![r] = <<CountRequest(PocketBaseURL, Collection)>>]
         /\ fetchResp' = [fetchResp EXCEPT ![r] = ans]
         /\ resp' = [resp EXCEPT ![r] = IF res.err # NoErr THEN ErrorResponse(res.err)
                                        ELSE CountResponse(res.count)]
    /\ cat' = [cat EXCEPT ![r] = NoCat]
    /\ hpc' = [hpc EXCEPT ![r] = "done"]
    /\ UNCHANGED <<views, served, pickerVars>>

Next ==
    \E r \in Slots :
        \/ Macka(r)
        \/ MackaDownload(r)
        \/ MackaRespond(r)
        \/ UpdateViews(r)
        \/ MackaCount(r)

Spec == Init /\ [][Next]_vars

\* The same server under LiveArrivals requests, with the scheduling the Go
\* runtime gives a handler: its file request ends within the client's timeout
\* and the handler then runs on.  The detached update is given no such
\* guarantee: it may hang, or never be seen to end.
LiveNext ==
    \E r \in Slots :
        \/ arrivals < LiveArrivals /\ Macka(r)
        \/ MackaDownload(r)
        \/ MackaRespond(r)
        \/ UpdateViews(r)
        \/ arrivals < LiveArrivals /\ MackaCount(r)
LiveSpec ==
    /\ Init /\ [][LiveNext]_vars
    /\ \A r \in Slots : WF_vars(MackaDownload(r)) /\ WF_vars(MackaRespond(r))

\* The local picker on every directory of at most MaxFiles entries.
PickerInit == MackaInit /\ dir \in Dirs /\ PickerIdle
PickerNext == Floppapi
PickerSpec == PickerInit /\ [][PickerNext]_vars


\* ======================================================== the properties
\* What the store answered, read off the answers themselves.
IsHTTP(a) == a.kind = "http"
Non200(a) == IsHTTP(a) /\ a.status # 200
FirstItem(a) == a.body.doc.items[1]
FetchOK(a) ==
    /\ IsHTTP(a) /\ a.status = 200 /\ a.body.json
    /\ "items" \in DOMAIN a.body.doc
    /\ Len(a.body.doc.items) >= 1
    /\ "image" \in DOMAIN FirstItem(a)
    /\ FirstItem(a).image # ""
DownloadOK(a) == IsHTTP(a) /\ a.status = 200 /\ ~a.readErr
IsMacka(r) == route[r] = "/macka"
IsCount(r) == route[r] = "/macka/count"
Succeeded(r) == IsMacka(r) /\ FetchOK(fetchResp[r]) /\ DownloadOK(dlResp[r])

Patches(r) == {i \in DOMAIN sent[r] : sent[r][i].method = "PATCH"}
FileRequests(r) ==
    {i \in DOMAIN sent[r] : sent[r][i].url.format = "%s/api/files/%s/%s/%s"}
RecordReads(r) ==
    {i \in DOMAIN sent[r] :
        /\ sent[r][i].method = "GET"
        /\ sent[r][i].url.format = "%s/api/collections/%s/records?perPage=1&sort=@random"}

\* The step in which slot r's goroutine issues its PATCH.
PatchStep(r) == gpc[r] = "ready" /\ gpc'[r] = "done"
PatchLanded(r) == IsHTTP(patchResp[r]) /\ patchResp[r].status = 200

\* C1: a GET /macka request issues one PATCH when its fetch and its download
\* succeeded and none otherwise; the PATCH goes to the fetched record's id with
\* views = fetched views + 1, the record is read once, and the PATCH is sent once.
C1_OnePatchPerSuccess ==
    \A r \in Slots : IsMacka(r) =>
        /\ Cardinality(Patches(r)) <= 1
        /\ Cardinality(RecordReads(r)) = 1
        /\ ~Succeeded(r) => (Patches(r) = {} /\ gpc[r] = "none")
        /\ Succeeded(r) => gpc[r] \in {"ready", "done"}
        /\ (Succeeded(r) /\ gpc[r] = "done") => Cardinality(Patches(r)) = 1
        /\ Patches(r) # {} => (Succeeded(r) /\ gpc[r] = "done")
        /\ \A i \in Patches(r) :
              /\ sent[r][i].url = [format |-> "%s/api/collections/%s/records/%s",
                                   args |-> <<"pb", "macky", FirstItem(fetchResp[r]).id>>]
              /\ sent[r][i].body = [json |-> TRUE,
                                    doc |-> [views |-> FirstItem(fetchResp[r]).views + 1]]

C1_Witness ==
    \E r \in Slots :
        /\ Succeeded(r) /\ gpc[r] = "done" /\ hpc[r] = "done"
        /\ FirstItem(fetchResp[r]).id = "r1"
        /\ Cardinality(Patches(r)) = 1

\* C2: lost updates.  When a PATCH lands whose request read the same record at
\* the same view count v as another request whose PATCH has already landed,
\* the stored count is v + 1 after it: the second update is lost.
C2_LostUpdate ==
    [][\A r, q \in Slots :
          (/\ r # q
           /\ PatchStep(r) /\ PatchLanded(r)'
           /\ Succeeded(q) /\ PatchLanded(q)
           /\ FirstItem(fetchResp[q]).id = FirstItem(fetchResp[r]).id
           /\ FirstItem(fetchResp[q]).views = FirstItem(fetchResp[r]).views)
          => views'[FirstItem(fetchResp[r]).id] = FirstItem(fetchResp[r]).views + 1]_vars

\* Two requests read r1 at 3, both PATCHes landed, and the store holds 4.
C2_Witness ==
    \E r, q \in Slots :
        /\ r # q
        /\ Succeeded(r) /\ Succeeded(q)
        /\ PatchLanded(r) /\ PatchLanded(q)
        /\ FirstItem(fetchResp[r]) = [id |-> "r1", image |-> "cat.jpg", views |-> 3]
        /\ FirstItem(fetchResp[q]) = [id |-> "r1", image |-> "cat.jpg", views |-> 3]
        /\ served["r1"] = 2
        /\ views["r1"] = 4

\* C3, as claimed: a request's PATCH is issued only after its response has
\* been written.
C3_PatchAfterResponse ==
    [][\A r \in Slots : PatchStep(r) => (hpc[r] = "done" /\ resp[r].kind = "sent")]_vars

\* C3, amended: a request's PATCH is issued only after its fetch and its
\* download succeeded and the handler has reached the go statement; the
\* response is then either not yet written or the 200 image response.
C3_PatchAfterLaunch ==
    [][\A r \in Slots : PatchStep(r) =>
          /\ Succeeded(r)
          /\ hpc[r] \in {"respond", "done"}
          /\ hpc[r] = "respond" => resp[r].kind = "none"
          /\ hpc[r] = "done" => (resp[r].kind = "sent" /\ resp[r].status = 200)]_vars

\* The PATCH has been issued and the response is not yet written.
C3_Witness ==
    \E r \in Slots :
        /\ Succeeded(r) /\ Patches(r) # {}
        /\ hpc[r] = "respond" /\ resp[r].kind = "none"

\* The handler has the image and has yet to write the response.
AboutToRespond(r) == IF Succeeded(r) THEN hpc[r] = "respond" ELSE FALSE

\* The client of slot r got 200 and the bytes of the file response.
GotImage(r) ==
    IF Succeeded(r) /\ hpc[r] = "done" /\ resp[r].kind = "sent" /\ resp[r].status = 200
    THEN resp[r].body = dlResp[r].body
    ELSE FALSE

\* The step of slot r's update leaves the handler and the response alone, and
\* logs exactly when the PATCH was not answered with 200.
UpdateLeavesResponse(r) ==
    IF PatchStep(r)
    THEN /\ hpc'[r] = hpc[r]
         /\ resp'[r] = resp[r]
         /\ (~PatchLanded(r)') <=> (logged'[r] # NoErr)
    ELSE TRUE

\* C4: the update's outcome never reaches the client.  A request whose fetch
\* and download succeeded gets the 200 image response, eventually, whatever
\* the update does; the step of the update leaves the response as it is, and a
\* failed update is logged.
C4_ResponseUnaffected ==
    /\ \A r \in Slots : AboutToRespond(r) ~> GotImage(r)
    /\ [][\A r \in Slots : UpdateLeavesResponse(r)]_vars
    /\ [](\A r \in Slots : IF Succeeded(r) /\ hpc[r] = "done" THEN GotImage(r) ELSE TRUE)

\* The image went out although the update failed, and the failure is logged.
C4_Witness ==
    \E r \in Slots :
        /\ Succeeded(r) /\ hpc[r] = "done" /\ resp[r].status = 200
        /\ gpc[r] = "done" /\ Non200(patchResp[r])
        /\ logged[r].format = "API error %d: %s"

\* C5: GET /macka answers 200, image/jpeg and the bytes of the file response
\* when fetch and download succeeded, and otherwise 500 with a JSON body
\* {"error": message} and no image bytes; nothing is written before that.
C5_MackaResponse ==
    \A r \in Slots : IsMacka(r) =>
        /\ hpc[r] # "done" => resp[r].kind = "none"
        /\ (hpc[r] = "done" /\ Succeeded(r)) =>
              /\ resp[r].kind = "sent" /\ resp[r].status = 200
              /\ resp[r].ctype = "image/jpeg"
              /\ resp[r].body = dlResp[r].body
        /\ (hpc[r] = "done" /\ ~Succeeded(r)) =>
              /\ resp[r].kind = "sent" /\ resp[r].status = 500
              /\ resp[r].ctype = "application/json"
              /\ resp[r].body.json /\ DOMAIN resp[r].body.doc = {"error"}
              /\ resp[r].body.doc.error.format # ""
        /\ (Succeeded(r) /\ hpc[r] # "done") => hpc[r] = "respond"

\* One request got the image, another the 500 of a file body that broke.
C5_Witness ==
    \E r, q \in Slots :
        /\ IsMacka(r) /\ hpc[r] = "done" /\ Succeeded(r) /\ resp[r].body = [json |-> FALSE, bytes |-> <<"r1">>]
        /\ IsMacka(q) /\ hpc[q] = "done" /\ FetchOK(fetchResp[q])
        /\ IsHTTP(dlResp[q]) /\ dlResp[q].status = 200 /\ dlResp[q].readErr
        /\ resp[q].status = 500

\* C6: the file request is sent only after a random-record response with
\* status 200, at least one item and a non-empty image on the first item; with
\* no item or with an empty image the client fails and sends no file request.
C6_DownloadAfterGoodFetch ==
    \A r \in Slots : IsMacka(r) =>
        /\ FileRequests(r) # {} => FetchOK(fetchResp[r])
        /\ \A i \in FileRequests(r) : i = 2
        /\ dlResp[r].kind # "none" <=> FileRequests(r) # {}
        /\ ~FetchOK(fetchResp[r]) =>
              (FileRequests(r) = {} /\ hpc[r] = "done" /\ resp[r].status = 500)

\* The first record had an empty image: the request failed, no file request.
C6_Witness ==
    \E r \in Slots :
        /\ IsMacka(r) /\ IsHTTP(fetchResp[r]) /\ fetchResp[r].status = 200
        /\ fetchResp[r].body.json /\ Len(fetchResp[r].body.doc.items) = 1
        /\ FirstItem(fetchResp[r]).image = ""
        /\ hpc[r] = "done" /\ FileRequests(r) = {}
        /\ resp[r].body.doc.error.format = "record has no image field"

\* The failure a non-200 answer must give: the format with the status code
\* and a body text.
StatusFailure(format, a, text) == [format |-> format, args |-> <<a.status, text>>]
BodyRead(a) == SubSeq(a.body.bytes, 1, a.got)

WholeBody(a) == a.body.bytes
Text(a, whole) == IF whole THEN WholeBody(a) ELSE BodyRead(a)

\* The four interactions on a non-200 answer: the failure carries the status
\* and the body text (the whole body, or what was read of it), and no later
\* step of the interaction runs.
Non200Fails(r, whole) ==
    /\ (IsMacka(r) /\ Non200(fetchResp[r])) =>
          /\ resp[r] = [kind |-> "sent", status |-> 500, ctype |-> "application/json",
                        headers |-> {},
                        body |-> [json |-> TRUE, doc |-> [error |->
                            StatusFailure("API error %d: %s", fetchResp[r],
                                          Text(fetchResp[r], whole))]]]
          /\ Len(sent[r]) = 1 /\ hpc[r] = "done" /\ gpc[r] = "none"
          /\ cat[r] = NoCat
    /\ (IsMacka(r) /\ Non200(dlResp[r])) =>
          /\ resp[r] = [kind |-> "sent", status |-> 500, ctype |-> "application/json",
                        headers |-> {},
                        body |-> [json |-> TRUE, doc |-> [error |->
                            StatusFailure("image download error %d: %s", dlResp[r],
                                          Text(dlResp[r], whole))]]]
          /\ Len(sent[r]) = 2 /\ hpc[r] = "done" /\ gpc[r] = "none"
          /\ imageData[r] = <<>>
    /\ (IsCount(r) /\ Non200(fetchResp[r])) =>
          /\ resp[r] = [kind |-> "sent", status |-> 500, ctype |-> "application/json",
                        headers |-> {},
                        body |-> [json |-> TRUE, doc |-> [error |->
                            StatusFailure("API error %d: %s", fetchResp[r],
                                          Text(fetchResp[r], whole))]]]
          /\ Len(sent[r]) = 1 /\ hpc[r] = "done"
    /\ (IsMacka(r) /\ Non200(patchResp[r])) =>
          /\ logged[r] = StatusFailure("API error %d: %s", patchResp[r], Text(patchResp[r], whole))
          /\ Cardinality(Patches(r)) = 1 /\ gpc[r] = "done"

\* C7, as claimed: each of the four remote interactions, on an answer whose
\* status is not 200, fails with a message that carries the status code and
\* the response body text, and runs no later step.
C7_Non200CarriesBody == \A r \in Slots : Non200Fails(r, TRUE)

\* C7, amended: the message carries the status code and the body text that
\* io.ReadAll returned, which is the whole body when the read succeeded and
\* the part read before the failure otherwise (the read's error is dropped).
C7_Non200CarriesBodyRead ==
    \A r \in Slots :
        /\ Non200Fails(r, FALSE)
        /\ (Non200(fetchResp[r]) /\ ~fetchResp[r].readErr) =>
              BodyRead(fetchResp[r]) = fetchResp[r].body.bytes
        /\ (Non200(dlResp[r]) /\ ~dlResp[r].readErr) => BodyRead(dlResp[r]) = dlResp[r].body.bytes
        /\ (Non200(patchResp[r]) /\ ~patchResp[r].readErr) =>
              BodyRead(patchResp[r]) = patchResp[r].body.bytes

\* An update that got a 404 whose body broke and was logged, beside a count
\* request that got a 404 whose body came whole.
C7_Witness ==
    \E r, q \in Slots :
        /\ IsMacka(r) /\ Non200(patchResp[r]) /\ patchResp[r].readErr
        /\ logged[r].args = <<404, <<>> >>
        /\ IsCount(q) /\ Non200(fetchResp[q]) /\ ~fetchResp[q].readErr
        /\ resp[q].body.doc.error.args = <<404, <<"not found">> >>

\* C9: a record's stored view count is at most its initial value plus the
\* number of GET /macka requests that fetched and downloaded that record.
C9_AtMostOncePerRequest ==
    \A id \in RecIds : views[id] <= InitViews[id] + served[id]

\* Three requests served r1 one after the other: the count is the initial 3
\* plus 3.  (Two that overlapped leave it lower: C2.)
C9_Witness == served["r1"] = 3 /\ views["r1"] = 6

\* C10, as claimed: no PATCH lowers a stored view count.
C10_NeverDecreases == [][\A id \in RecIds : views'[id] >= views[id]]_vars

\* C10, amended: a stored view count never falls below its initial value, and
\* is above it once a PATCH of the record has landed; every PATCH that lands
\* stores a value above the one its request read.  (It can be lower than the
\* value stored just before: a PATCH with a stale count lands after later ones.)
C10_NeverBelowInitial ==
    /\ \A id \in RecIds : views[id] >= InitViews[id]
    /\ \A r \in Slots : (Succeeded(r) /\ PatchLanded(r)) =>
          /\ views[FirstItem(fetchResp[r]).id] >= InitViews[FirstItem(fetchResp[r]).id] + 1
          /\ sent[r][3].body.doc.views > FirstItem(fetchResp[r]).views

\* A stale PATCH has landed: r1 was served three times and holds 4, not 5.
C10_Witness ==
    /\ served["r1"] = 3 /\ views["r1"] = 4
    /\ \E r, q \in Slots :
          /\ PatchLanded(r) /\ PatchLanded(q)
          /\ FirstItem(fetchResp[r]).views = 3 /\ FirstItem(fetchResp[q]).views = 4
          /\ FirstItem(fetchResp[r]).id = "r1" /\ FirstItem(fetchResp[q]).id = "r1"

\* The extensions the picker lets through, and the entries of a directory
\* that end in one of them and are no directory.
AllowList ==
    { <<".", "j", "p", "g">>, <<".", "j", "p", "e", "g">>, <<".", "p", "n", "g">>,
      <<".", "g", "i", "f">>, <<".", "b", "m", "p">>, <<".", "w", "e", "b", "p">> }
EndsWith(name, e) ==
    Len(name) >= Len(e) /\ SubSeq(name, Len(name) - Len(e) + 1, Len(name)) = e
Qualifying(d) ==
    {i \in d : ~Candidates[i].isDir /\ \E e \in AllowList : EndsWith(Candidates[i].name, e)}
PathOf(name) == <<"f", "l", "o", "p", "p", "a", "/">> \o name

\* C8: on every directory that can be read, getRandomImage returns the path of
\* an entry that is no directory and ends in an allow-listed extension, draws
\* it from the list of all such entries, and fails with "no image files found"
\* when there is none.
C8_PickerAllowList ==
    (picked.kind = "done" /\ picked.err.format # "failed to read floppa directory: %v") =>
        /\ {imageFiles[i] : i \in DOMAIN imageFiles} = {Candidates[i].name : i \in Qualifying(dir)}
        /\ Len(imageFiles) = Cardinality(Qualifying(dir))
        /\ Qualifying(dir) = {} =>
              /\ picked.status = 500
              /\ picked.err = [format |-> "no image files found in floppa directory",
                               args |-> <<>>]
              /\ picked.path = <<>>
        /\ Qualifying(dir) # {} =>
              /\ picked.status = 200 /\ picked.err.format = ""
              /\ \E i \in Qualifying(dir) : picked.path = PathOf(Candidates[i].name)

\* From a directory of d.jpg.bmp and the subdirectory sub.png, d.jpg.bmp.
C8_Witness ==
    /\ dir = {6, 12}
    /\ picked.kind = "done" /\ picked.status = 200
    /\ picked.path = PathOf(<<"d", ".", "j", "p", "g", ".", "b", "m", "p">>)

====
